---- MODULE Spec2Model ----
(***************************************************************************)
(* simplesox8: a threaded TCP server with a mutex-guarded registry of      *)
(* request handlers (server.py) and an auto-reconnecting client with an    *)
(* observer list (client.py).                                              *)
(*                                                                         *)
(* Server side.  One thread per accepted connection runs                   *)
(* ThreadedTCPRequestHandler.handle: it adds itself to                     *)
(* server.request_handlers, loops on recv while server.server_active, and  *)
(* removes itself in a finally block.  The registry operations are also    *)
(* public methods of ThreadedTCPServer; with direct = TRUE the threads     *)
(* call them directly, in any order and with any argument.                 *)
(*                                                                         *)
(* Client side.  Client.connect loops until a socket is connected and a    *)
(* ClientThread is started; ClientThread.run reads from the client's       *)
(* current socket, notifies the observers, and calls Client.connect again  *)
(* from its finally block unless the client is shutting down.              *)
(* Client.shutdown sets the flag, interrupts and joins the thread, and     *)
(* closes the socket.  Agent 0 is the caller's thread; agent k >= 1 is the *)
(* ClientThread created for the k-th connected socket.                     *)
(***************************************************************************)
EXTENDS Integers, Sequences, FiniteSets, TLC

\* ------------------------------------------------------------------ bounds
NSessions == 2
MaxOps == 2
MaxConn == 3
MaxData == 2
NObs == 2

Sessions == 1..NSessions
Texts == {<<" ", "w">>}
Strategies == {"hello", "broadcast", "send"}
SendOutcomes == {"ok", "timeout", "error"}
Conns == 1..MaxConn
Agents == 0..MaxConn
Observers == 1..NObs

VARIABLES
    direct,            \* TRUE: threads call the registry's public methods directly
    strategy,          \* ThreadedTCPRequestHandler.client_handler
    pc,                \* position of each session thread
    arg,               \* the request_handler argument of the registry call in progress
    cur,               \* the message being handled / the data being broadcast
    request_handlers,  \* ThreadedTCPServer.request_handlers (a list)
    mutex,             \* ThreadedTCPServer.mutex: 0 free, else the holding thread
    idx,               \* position of the for loop of loop_request_handlers
    server_active,     \* ThreadedTCPServer.server_active
    listening,         \* the listening socket is open
    nops,              \* number of messages received / direct calls made so far
    bc,                \* history: the call of loop_request_handlers that is running:
                       \*   its thread, data, the registry at entry, the sends made
    lastCall,          \* history: the last direct add/remove call and whether its
                       \*   argument was present
    fault,             \* history: handler.handle raised a non-timeout error in
                       \*   the session
    atClose            \* history: when server_active was set to False,
                       \*   session 1 was blocked in recv and session 2 was
                       \*   not yet accepted

svars == <<direct, strategy, pc, arg, cur, request_handlers, mutex, idx,
           server_active, listening, nops, bc, lastCall,
           fault, atClose>>

VARIABLES
    cpc,               \* position of the caller's thread (0) and of each ClientThread
    sock,              \* Client._socket: 0 None, -1 a socket created and not
                       \*   connected, -2 the same once closed, k >= 1 the k-th
                       \*   connected socket
    sockState,         \* of each connected socket: "none", "open", "closed"
    thread,            \* Client._thread: 0 None, else a ClientThread
    tcont,             \* ClientThread._continue
    is_shutting_down,  \* Client._is_shutting_down
    c_continue,        \* Client._continue
    joined,            \* the thread shutdown() is joining
    nconn,             \* number of sockets connected so far
    ndata,             \* number of messages received so far
    observers,         \* _Observable._observers (a list)
    nidx,              \* position of the for loop of notify_observers
    ncall,             \* history: the running (else the last) notify_observers call
    lastExit,          \* history: why the last receive loop ended
    lastReg            \* history: the last register/unregister and whether present

cvars == <<cpc, sock, sockState, thread, tcont, is_shutting_down, c_continue,
           joined, nconn, ndata, observers, nidx, ncall, lastExit, lastReg>>

vars == <<svars, cvars>>

\* ------------------------------------------------------------- pure helpers
InList(x, list) == \E i \in 1..Len(list) : list[i] = x

Count(x, list) == Cardinality({i \in 1..Len(list) : list[i] = x})

FirstIndex(x, list) == CHOOSE i \in 1..Len(list) :
                          list[i] = x /\ \A j \in 1..(i - 1) : list[j] # x

ListRemoveLast(list, x) == SubSeq(list, 1, Len(list) - 1)

\* list.remove(x): deletes the first occurrence
ListRemove(list, x) ==
    LET i == FirstIndex(x, list)
    IN  SubSeq(list, 1, i - 1) \o SubSeq(list, i + 1, Len(list))

RECURSIVE LStrip(_)
LStrip(t) == IF t # <<>> /\ Head(t) = " " THEN LStrip(Tail(t)) ELSE t

RECURSIVE RStrip(_)
RStrip(t) == IF t # <<>> /\ t[Len(t)] = " "
             THEN RStrip(SubSeq(t, 1, Len(t) - 1)) ELSE t

\* str.strip()
Strip(t) == RStrip(LStrip(t))

\* HelloClientHandler: f"{request_handler.thread_name}: Hello {data.strip()}!"
Greeting(s, data) == [greet |-> TRUE, thread |-> s, text |-> Strip(data)]

\* BroadcastClientHandler / SendClientHandler pass the data on unchanged
Verbatim(data) == [greet |-> FALSE, thread |-> 0, text |-> data]

NoData == [greet |-> FALSE, thread |-> 0, text |-> <<>>]

\* ------------------------------------------------------- registry operations
AddHandlerNoCheck(list, x) == Append(list, x)

\* add_request_handler, the body under the mutex
AddHandler(list, x) == IF InList(x, list) THEN list ELSE Append(list, x)

RemoveHandlerKeep(list, x) == list

\* remove_request_handler, the body under the mutex
RemoveHandler(list, x) == IF InList(x, list) THEN ListRemove(list, x) ELSE list

NextIndexSkip(i) == i + 2

\* the for loop of loop_request_handlers advances by one element
NextIndex(i) == i + 1

MutexIgnored == TRUE

\* with self.mutex: the lock is acquired only when no thread holds it
MutexFree == mutex = 0

NotAcquired(t) == 0

\* with self.mutex: the thread holds the lock while it is inside the block
Acquired(t) == t

HeldOnRaise(t) == t

\* with self.mutex: an exception that leaves the block releases the lock
ReleasedOnRaise(t) == 0

\* no notify_observers call has been made yet
NoCall == [by |-> 0, start |-> <<>>, invoked |-> <<>>, stayed |-> <<>>,
           status |-> "none"]

NoBroadcast == [from |-> 0, data |-> NoData, members |-> <<>>, invoked |-> <<>>]

\* Where a thread continues when a call returns normally / raises.
AfterAdd == IF direct THEN "caller" ELSE "check"
AfterRemove == IF direct THEN "caller" ELSE "done"
AfterBroadcast == IF direct THEN "caller" ELSE "check"

RaisedNoFinally(outcome) == IF direct THEN "caller"
                            ELSE IF outcome = "timeout" THEN "check" ELSE "done"

RaisedSwallowed(outcome) == IF direct THEN "caller" ELSE "check"

\* An exception leaving handler.handle / recv inside handle()'s while loop:
\* socket.timeout is caught by the inner except and the loop goes on; anything
\* else leaves the loop through the finally block.
Raised(outcome) == IF direct THEN "caller"
                   ELSE IF outcome = "timeout" THEN "check" ELSE "rm_wait"

\* history: the session in which handler.handle raised an error that is not
\* a socket.timeout
Fault(t, outcome) == IF ~direct /\ outcome = "error"
                     THEN [fault EXCEPT ![t] = TRUE] ELSE fault

LoopExitNoFlag == "recv"

\* while self.server.server_active
LoopTest == IF server_active THEN "recv" ELSE "rm_wait"

\* ------------------------------------------------------------------- Init
InitServer ==
    /\ direct \in BOOLEAN
    /\ strategy \in (IF direct THEN {"broadcast"} ELSE Strategies)
    /\ pc = [s \in Sessions |-> IF direct THEN "caller" ELSE "idle"]
    /\ arg = [s \in Sessions |-> s]
    /\ cur = [s \in Sessions |-> NoData]
    /\ request_handlers = <<>>
    /\ mutex = 0
    /\ idx = [s \in Sessions |-> 0]
    /\ server_active = TRUE
    /\ listening = TRUE
    /\ nops = 0
    /\ bc = NoBroadcast
    /\ lastCall = "none"
    /\ fault = [s \in Sessions |-> FALSE]
    /\ atClose = FALSE

\* Client.__init__ and ClientThread: nothing connected, nothing registered
InitClient ==
    /\ cpc = [a \in Agents |-> IF a = 0 THEN "idle" ELSE "none"]
    /\ sock = 0
    /\ sockState = [k \in Conns |-> "none"]
    /\ thread = 0
    /\ tcont = [k \in Conns |-> TRUE]
    /\ is_shutting_down = FALSE
    /\ c_continue = TRUE
    /\ joined = 0
    /\ nconn = 0
    /\ ndata = 0
    /\ observers = <<>>
    /\ nidx = 0
    /\ ncall = NoCall
    /\ lastExit = "none"
    /\ lastReg = "none"

\* ------------------------------------------------------------ server actions
\* serve_forever accepts a connection and starts a thread running handle(),
\* which first calls self.server.add_request_handler(self); the sessions are
\* numbered in the order in which they are accepted
Accept(s) ==
    /\ ~direct /\ listening /\ pc[s] = "idle"
    /\ \A r \in 1..(s - 1) : pc[r] # "idle"
    /\ pc' = [pc EXCEPT ![s] = "add_wait"]
    /\ arg' = [arg EXCEPT ![s] = s]
    /\ UNCHANGED <<direct, atClose, fault, strategy, cur, request_handlers, mutex, idx,
                   server_active, listening, nops, bc, lastCall>>
    /\ UNCHANGED cvars

\* a driver thread calls server.add_request_handler(x)
CallAdd(t, x) ==
    /\ direct /\ pc[t] = "caller" /\ nops < MaxOps
    /\ pc' = [pc EXCEPT ![t] = "add_wait"]
    /\ arg' = [arg EXCEPT ![t] = x]
    /\ nops' = nops + 1
    /\ UNCHANGED bc
    /\ UNCHANGED <<direct, atClose, fault, strategy, cur, request_handlers, mutex, idx,
                   server_active, listening, lastCall>>
    /\ UNCHANGED cvars

\* a driver thread calls server.remove_request_handler(x)
CallRemove(t, x) ==
    /\ direct /\ pc[t] = "caller" /\ nops < MaxOps
    /\ pc' = [pc EXCEPT ![t] = "rm_wait"]
    /\ arg' = [arg EXCEPT ![t] = x]
    /\ nops' = nops + 1
    /\ UNCHANGED bc
    /\ UNCHANGED <<direct, atClose, fault, strategy, cur, request_handlers, mutex, idx,
                   server_active, listening, lastCall>>
    /\ UNCHANGED cvars

\* a driver thread calls server.broadcast(data)
CallBroadcast(t, data) ==
    /\ direct /\ pc[t] = "caller" /\ nops < MaxOps
    /\ pc' = [pc EXCEPT ![t] = "bc_wait"]
    /\ cur' = [cur EXCEPT ![t] = Verbatim(data)]
    /\ nops' = nops + 1
    /\ UNCHANGED bc
    /\ UNCHANGED <<direct, atClose, fault, strategy, arg, request_handlers, mutex, idx,
                   server_active, listening, lastCall>>
    /\ UNCHANGED cvars

\* add_request_handler: the with block takes the mutex, runs and releases it
AddRequestHandler(t) ==
    /\ pc[t] = "add_wait" /\ MutexFree
    /\ request_handlers' = AddHandler(request_handlers, arg[t])
    /\ pc' = [pc EXCEPT ![t] = AfterAdd]
    /\ lastCall' = IF ~direct THEN lastCall
                   ELSE IF InList(arg[t], request_handlers) THEN "add_present"
                   ELSE "add_absent"
    /\ UNCHANGED <<direct, atClose, fault, strategy, arg, cur, mutex, idx, server_active,
                   listening, nops, bc>>
    /\ UNCHANGED cvars

\* remove_request_handler: the with block takes the mutex, runs and releases it
RemoveRequestHandler(t) ==
    /\ pc[t] = "rm_wait" /\ MutexFree
    /\ request_handlers' = RemoveHandler(request_handlers, arg[t])
    /\ pc' = [pc EXCEPT ![t] = AfterRemove]
    /\ lastCall' = IF ~direct THEN lastCall
                   ELSE IF InList(arg[t], request_handlers) THEN "remove_present"
                   ELSE "remove_absent"
    /\ UNCHANGED <<direct, atClose, fault, strategy, arg, cur, mutex, idx, server_active,
                   listening, nops, bc>>
    /\ UNCHANGED cvars

\* with self.mutex: (loop_request_handlers, called by broadcast)
BroadcastEnter(t) ==
    /\ pc[t] = "bc_wait" /\ MutexFree
    /\ mutex' = Acquired(t)
    /\ pc' = [pc EXCEPT ![t] = "bc_cs"]
    /\ idx' = [idx EXCEPT ![t] = 1]
    /\ bc' = [from |-> t, data |-> cur[t], members |-> request_handlers,
              invoked |-> <<>>]
    /\ UNCHANGED <<direct, atClose, fault, strategy, arg, cur, request_handlers,
                   server_active, listening, nops, lastCall>>
    /\ UNCHANGED cvars

\* one iteration of the for loop: _broadcast(request_handler, data) calls
\* request_handler.send(data); sendall returns, times out or fails
BroadcastSend(t) ==
    /\ pc[t] = "bc_cs" /\ idx[t] <= Len(request_handlers)
    /\ \E outcome \in SendOutcomes :
         LET target == request_handlers[idx[t]]
         IN  IF outcome = "ok"
             THEN /\ idx' = [idx EXCEPT ![t] = NextIndex(idx[t])]
                  /\ bc' = [bc EXCEPT !.invoked = Append(@, <<target, cur[t]>>)]
                  /\ UNCHANGED <<pc, mutex, cur, fault>>
             ELSE /\ bc' = NoBroadcast
                  /\ mutex' = ReleasedOnRaise(t)
                  /\ idx' = [idx EXCEPT ![t] = 0]
                  /\ cur' = [cur EXCEPT ![t] = NoData]
                  /\ pc' = [pc EXCEPT ![t] = Raised(outcome)]
                  /\ fault' = Fault(t, outcome)
    /\ UNCHANGED <<direct, atClose, strategy, arg, request_handlers,
                   server_active, listening, nops, lastCall>>
    /\ UNCHANGED cvars

\* the for loop is exhausted: the mutex is released and broadcast returns
BroadcastEnd(t) ==
    /\ pc[t] = "bc_cs" /\ idx[t] > Len(request_handlers)
    /\ bc' = NoBroadcast
    /\ mutex' = 0
    /\ idx' = [idx EXCEPT ![t] = 0]
    /\ pc' = [pc EXCEPT ![t] = AfterBroadcast]
    /\ cur' = [cur EXCEPT ![t] = NoData]
    /\ UNCHANGED <<direct, atClose, fault, strategy, arg, request_handlers,
                   server_active, listening, nops, lastCall>>
    /\ UNCHANGED cvars

\* while self.server.server_active:
CheckActive(s) ==
    /\ pc[s] = "check"
    /\ pc' = [pc EXCEPT ![s] = LoopTest]
    /\ UNCHANGED bc
    /\ UNCHANGED <<direct, atClose, fault, strategy, arg, cur,
                   request_handlers, mutex, idx,
                   server_active, listening, nops, lastCall>>
    /\ UNCHANGED cvars

\* data = self.request.recv(1024) returned a message; it is decoded and
\* handler.handle(msg, self) is called: SendClientHandler sends it back,
\* HelloClientHandler and BroadcastClientHandler broadcast
RecvData(s, data) ==
    /\ pc[s] = "recv" /\ nops < MaxOps
    /\ nops' = nops + 1
    /\ cur' = [cur EXCEPT ![s] = IF strategy = "hello" THEN Greeting(s, data)
                                  ELSE Verbatim(data)]
    /\ pc' = [pc EXCEPT ![s] = IF strategy = "send" THEN "send" ELSE "bc_wait"]
    /\ UNCHANGED <<direct, atClose, fault, strategy, arg, request_handlers, mutex, idx,
                   server_active, listening, bc, lastCall>>
    /\ UNCHANGED cvars

\* recv returned b"": break
RecvEmpty(s) ==
    /\ pc[s] = "recv"
    /\ pc' = [pc EXCEPT ![s] = "rm_wait"]
    /\ UNCHANGED <<direct, atClose, fault, strategy, arg, cur,
                   request_handlers, mutex, idx,
                   server_active, listening, nops, bc, lastCall>>
    /\ UNCHANGED cvars

\* recv raised socket.timeout, or an OSError, or str(data, "UTF-8") raised
RecvRaise(s, outcome) ==
    /\ pc[s] = "recv"
    /\ pc' = [pc EXCEPT ![s] = Raised(outcome)]
    /\ UNCHANGED <<direct, atClose, fault, strategy, arg, cur,
                   request_handlers, mutex, idx,
                   server_active, listening, nops, bc, lastCall>>
    /\ UNCHANGED cvars

\* SendClientHandler.handle: request_handler.send(data) on the own socket
HandleSend(s) ==
    /\ pc[s] = "send"
    /\ \E outcome \in SendOutcomes :
         /\ pc' = [pc EXCEPT ![s] = IF outcome = "ok" THEN "check"
                                    ELSE Raised(outcome)]
         /\ fault' = Fault(s, outcome)
    /\ cur' = [cur EXCEPT ![s] = NoData]
    /\ UNCHANGED <<direct, atClose, strategy, arg, request_handlers, mutex, idx,
                   server_active, listening, nops, bc, lastCall>>
    /\ UNCHANGED cvars

\* server_close(), called by server_main while serve_forever still runs:
\* self.server_active = False; the listening socket is still open
ServerClose ==
    /\ ~direct /\ server_active
    /\ server_active' = FALSE
    /\ atClose' = (pc[1] = "recv" /\ pc[2] = "idle")
    /\ UNCHANGED <<direct, fault, strategy, pc, arg, cur, request_handlers,
                   mutex, idx, listening, nops, bc, lastCall>>
    /\ UNCHANGED cvars

\* server_close(): super().server_close() closes the listening socket (and
\* then waits for the session threads); no connection is accepted afterwards
SuperServerClose ==
    /\ ~direct /\ ~server_active /\ listening
    /\ listening' = FALSE
    /\ UNCHANGED <<direct, atClose, fault, strategy, pc, arg, cur,
                   request_handlers, mutex, idx, server_active, nops, bc,
                   lastCall>>
    /\ UNCHANGED cvars

RegistryStep(t) ==
    \/ AddRequestHandler(t)
    \/ RemoveRequestHandler(t)
    \/ BroadcastEnter(t) \/ BroadcastSend(t) \/ BroadcastEnd(t)

SessionStep(s) ==
    \/ CheckActive(s)
    \/ \E data \in Texts : RecvData(s, data)
    \/ RecvEmpty(s)
    \/ \E outcome \in {"timeout", "error"} : RecvRaise(s, outcome)
    \/ HandleSend(s)

DriverStep(t) ==
    \/ \E x \in Sessions : CallAdd(t, x)
    \/ \E x \in Sessions : CallRemove(t, x)
    \/ \E data \in Texts : CallBroadcast(t, data)

NextServer ==
    \/ \E s \in Sessions : Accept(s)
    \/ \E s \in Sessions : RegistryStep(s)
    \/ \E s \in Sessions : SessionStep(s)
    \/ \E s \in Sessions : DriverStep(s)
    \/ ServerClose
    \/ SuperServerClose

\* The server alone: the client stays as constructed.
InitS == InitServer /\ InitClient

SpecServer == InitS /\ [][NextServer]_vars

\* Every thread that can take a step eventually takes one: the threads are
\* operating-system threads, and each recv and sendall returns or raises; the
\* thread inside server_close() goes on to close the listening socket.
FairServer == /\ SpecServer
              /\ \A s \in Sessions : WF_vars(RegistryStep(s) \/ SessionStep(s))
              /\ WF_vars(SuperServerClose)

\* --------------------------------------------------------- server properties
Targets(invoked) == [i \in 1..Len(invoked) |-> invoked[i][1]]

\* C1: when the send to one session fails during a broadcast, send is still
\* invoked on every other registered session: a thread leaves the loop on a
\* failing send only when all the other sessions have had their send.
C1_IsolationUnderFailure ==
    [][\A t \in Sessions :
         (pc[t] = "bc_cs" /\ pc'[t] # "bc_cs" /\ idx[t] <= Len(bc.members))
         => \A i \in 1..Len(bc.members) :
              i # idx[t] => InList(bc.members[i], Targets(bc.invoked))]_vars

\* C2: a session whose receive loop has ended, for whatever reason, is
\* eventually out of the registry.
C2_UnconditionalCleanup ==
    \A s \in Sessions :
        (~direct /\ pc[s] \in {"rm_wait", "done"}) ~> ~InList(s, request_handlers)

C2_Witness ==
    /\ ~direct /\ server_active
    /\ pc[1] = "done" /\ ~InList(1, request_handlers)
    /\ InList(2, request_handlers)

\* C3: once server_active is False, no session starts another recv, so each
\* session that was in its receive loop completes at most the read it is in,
\* and the registry becomes empty and stays empty, sessions accepted after
\* the flag was cleared included.
C3_ShutdownTermination ==
    /\ [][\A s \in Sessions :
            (~server_active /\ pc[s] # "recv") => pc'[s] # "recv"]_vars
    /\ (~server_active ~> [](request_handlers = <<>>))

C3_Witness ==
    /\ ~server_active /\ ~listening
    /\ atClose
    /\ request_handlers = <<>>
    /\ pc[1] = "done" /\ pc[2] = "done"

Unique(list) == \A i, j \in 1..Len(list) : list[i] = list[j] => i = j

\* C8: the registry never holds a session twice; an add of a present session
\* and a remove of an absent one leave it unchanged.
C8_RegistryUniqueness ==
    /\ []Unique(request_handlers)
    /\ [][\A t \in Sessions :
            /\ (pc[t] = "add_wait" /\ pc'[t] # "add_wait"
                  /\ InList(arg[t], request_handlers))
               => request_handlers' = request_handlers
            /\ (pc[t] = "rm_wait" /\ pc'[t] # "rm_wait"
                  /\ ~InList(arg[t], request_handlers))
               => request_handlers' = request_handlers]_vars

C8_Witness ==
    /\ direct /\ lastCall = "add_present"
    /\ Len(request_handlers) = 1

\* C9: a broadcast in which no send fails invokes send with the broadcast
\* data exactly once on each session registered when it started, the issuing
\* session included, and on no other: this holds when the loop is exhausted.
C9_BroadcastFanOut ==
    \A t \in Sessions :
        (pc[t] = "bc_cs" /\ idx[t] > Len(request_handlers)) =>
            /\ bc.from = t
            /\ \A s \in Sessions :
                 Count(s, Targets(bc.invoked)) = IF InList(s, bc.members) THEN 1 ELSE 0
            /\ \A i \in 1..Len(bc.invoked) : bc.invoked[i][2] = bc.data

C9_Witness ==
    /\ ~direct /\ bc.from # 0
    /\ pc[bc.from] = "bc_cs" /\ idx[bc.from] > Len(request_handlers)
    /\ Len(bc.members) = NSessions
    /\ InList(bc.from, bc.members)

\* C13: the registry changes only when no other thread holds the mutex, so it
\* is the same from the first to the last send of a broadcast; at most one
\* thread is inside loop_request_handlers, and it holds the mutex.
C13_LockDiscipline ==
    /\ [](\A t \in Sessions : pc[t] = "bc_cs" <=> mutex = t)
    /\ [](mutex # 0 => bc.from = mutex /\ bc.members = request_handlers)
    /\ [][mutex # 0 => request_handlers' = request_handlers]_vars

C13_Witness ==
    /\ ~direct /\ mutex = 1 /\ Len(bc.invoked) >= 1
    /\ idx[1] <= Len(request_handlers)
    /\ pc[2] = "rm_wait" /\ InList(2, bc.members)

\* between the return of add_request_handler in handle() and the return of
\* remove_request_handler in its finally block
InInterval(s) == pc[s] \in {"check", "recv", "send", "bc_wait", "bc_cs", "rm_wait"}

\* C14: a session run by handle() is in the registry exactly from its add,
\* made right after the accept, to the remove of its exit cleanup.
C14_MembershipInterval ==
    ~direct => \A s \in Sessions : InList(s, request_handlers) <=> InInterval(s)

C14_Witness ==
    /\ ~direct
    /\ pc[1] = "done" /\ ~InList(1, request_handlers)
    /\ pc[2] = "add_wait" /\ ~InList(2, request_handlers) /\ nops >= 1

Waiting(t) == pc[t] \in {"add_wait", "rm_wait", "bc_wait"}

\* C17: a thread that leaves loop_request_handlers, by the end of the loop or
\* by a failing send, leaves the mutex free, and every thread waiting to add,
\* remove or broadcast gets the mutex in the end.
C17_MutexNeverLeftHeld ==
    /\ [][\A t \in Sessions :
            (pc[t] = "bc_cs" /\ pc'[t] # "bc_cs") => mutex' = 0]_vars
    /\ \A t \in Sessions : Waiting(t) ~> ~Waiting(t)

C17_Witness ==
    /\ fault[1] /\ pc[1] = "rm_wait"
    /\ mutex = 2 /\ pc[2] = "bc_cs" /\ Len(bc.invoked) >= 1

\* a step of the for loop of loop_request_handlers made by thread t
FanOutStep(t) == pc[t] = "bc_cs" /\ (idx'[t] # idx[t] \/ pc'[t] # "bc_cs")

\* C18: broadcasts of different threads are serialised: while one thread is
\* in its fan-out, from the first send to the last, no other thread is in
\* one, so the sends of two broadcasts are never interleaved and every
\* session gets the two messages in the same order.
C18_BroadcastsSerialised ==
    [][\A t \in Sessions :
         FanOutStep(t) => /\ bc.from = t
                          /\ \A u \in Sessions \ {t} : pc[u] # "bc_cs"]_vars

C18_Witness ==
    /\ ~direct /\ pc[1] = "bc_wait"
    /\ pc[2] = "bc_cs" /\ Len(bc.invoked) = 1 /\ Len(bc.members) = 2

\* C19: send is invoked only on sessions that are in the registry at that
\* moment, between their add and the remove of their exit cleanup; a session
\* that has completed its remove is never sent to.
C19_NoSendToDeparted ==
    [][\A t \in Sessions :
         (~direct /\ FanOutStep(t) /\ idx[t] <= Len(request_handlers))
         => /\ InInterval(request_handlers[idx[t]])
            /\ \A i \in 1..Len(bc'.invoked) :
                  /\ InList(bc'.invoked[i][1], request_handlers)
                  /\ pc[bc'.invoked[i][1]] # "done"]_vars

C19_Witness ==
    /\ ~direct /\ pc[1] = "done"
    /\ mutex = 2 /\ bc.members = <<2>> /\ Targets(bc.invoked) = <<2>>

Without(list, x) == SelectSeq(list, LAMBDA y : y # x)

\* C16: when handler.handle raises a non-timeout error in session s, a failed
\* send of a broadcast issued by s included, s leaves its loop and s alone is
\* removed; the registry and the position of every other session are as they
\* were.
C16_FaultContainment ==
    [][\A s \in Sessions :
         /\ (fault'[s] /\ ~fault[s])
            => /\ pc'[s] = "rm_wait"
               /\ request_handlers' = request_handlers
               /\ \A r \in Sessions \ {s} : pc'[r] = pc[r]
         /\ (fault[s] /\ pc[s] = "rm_wait" /\ pc'[s] # "rm_wait")
            => /\ pc'[s] = "done"
               /\ request_handlers' = Without(request_handlers, s)
               /\ \A r \in Sessions \ {s} : pc'[r] = pc[r]
         /\ (~direct /\ pc[s] = "done") => pc'[s] = "done"]_vars

C16_Witness ==
    /\ strategy = "broadcast" /\ fault[2] /\ pc[2] = "done"
    /\ request_handlers = <<1>> /\ pc[1] = "recv" /\ server_active

\* ============================================================== the client
\* ------------------------------------------------------- observer operations
RegisterNoCheck(list, o) == Append(list, o)

\* the for loop of notify_observers advances by one element of the list
NotifyNext(i) == i + 1

\* history: of the observers registered when the running notify_observers
\* call started, those that have been registered ever since
Touch(list) == IF ncall.status = "running"
               THEN [ncall EXCEPT
                       !.stayed = SelectSeq(@, LAMBDA o : InList(o, list))]
               ELSE ncall

\* register_observer: append unless already registered (then only a warning)
Register(list, o) == IF InList(o, list) THEN list ELSE Append(list, o)

\* unregister_observer: remove if registered (else only a warning)
Unregister(list, o) == IF InList(o, list) THEN ListRemove(list, o) ELSE list

Running(a) == cpc[a] \in {"check", "recv", "notify", "fin", "conn",
                          "connecting", "mkthread", "start", "started",
                          "sleep"}

InLoop(k) == cpc[k] \in {"check", "recv", "notify"}

AfterConnectResume(a) == IF a = 0 THEN "run" ELSE "check"

\* what connect() returns to: the caller carries on, a ClientThread's run ends
AfterConnect(a) == IF a = 0 THEN "run" ELSE "done"

ExceptRaise == "failed"

\* connect(): except Exception as e: log.exception(e); sleep(5), and the
\* while True loop goes round again
ExceptRetry == "sleep"

InConnect(a) == cpc[a] \in {"conn", "connecting", "mkthread", "start",
                            "started", "sleep"}

FinallyNoReconnect == "done"

\* the finally block of ClientThread.run:
\*   if not self.client.is_shutting_down: self.client.connect()
Finally == IF ~is_shutting_down THEN "conn" ELSE "done"

\* while self._continue
ClientLoopTest(k) == IF tcont[k] THEN "recv" ELSE "fin"

\* ------------------------------------------------------------ client actions
\* the caller invokes start() / start_forever(), which calls connect()
StartClient ==
    /\ cpc[0] = "idle"
    /\ cpc' = [cpc EXCEPT ![0] = "conn"]
    /\ UNCHANGED <<sock, sockState, thread, tcont, is_shutting_down,
                   c_continue, joined, nconn, ndata, observers, nidx, ncall,
                   lastExit, lastReg>>
    /\ UNCHANGED svars

\* connect_socket(): self._socket = socket.socket(...); the new socket is the
\* client's socket from here on, before it is connected
SocketCreate(a) ==
    /\ cpc[a] = "conn"
    /\ sock' = -1
    /\ cpc' = [cpc EXCEPT ![a] = "connecting"]
    /\ UNCHANGED <<sockState, thread, tcont, is_shutting_down, c_continue,
                   joined, nconn, ndata, observers, nidx, ncall, lastExit,
                   lastReg>>
    /\ UNCHANGED svars

\* connect_socket(): socket.socket() raises and _socket keeps its value;
\* connect() logs the exception and sleeps
SocketFail(a) ==
    /\ cpc[a] = "conn"
    /\ cpc' = [cpc EXCEPT ![a] = ExceptRetry]
    /\ UNCHANGED <<sock, sockState, thread, tcont, is_shutting_down,
                   c_continue, joined, nconn, ndata, observers, nidx, ncall,
                   lastExit, lastReg>>
    /\ UNCHANGED svars

\* connect_socket(): self.socket.connect(...) returns and the socket is given
\* its timeout
ConnectOK(a) ==
    /\ cpc[a] = "connecting" /\ sock = -1 /\ nconn < MaxConn
    /\ nconn' = nconn + 1
    /\ sock' = nconn + 1
    /\ sockState' = [sockState EXCEPT ![nconn + 1] = "open"]
    /\ cpc' = [cpc EXCEPT ![a] = "mkthread"]
    /\ UNCHANGED <<thread, tcont, is_shutting_down, c_continue, joined, ndata,
                   observers, nidx, ncall, lastExit, lastReg>>
    /\ UNCHANGED svars

\* connect_socket(): self.socket.connect(...) raises (the server is not
\* reachable, or the socket was closed meanwhile); _socket stays the
\* unconnected socket; connect() logs the exception and sleeps
ConnectFail(a) ==
    /\ cpc[a] = "connecting"
    /\ cpc' = [cpc EXCEPT ![a] = ExceptRetry]
    /\ UNCHANGED <<sock, sockState, thread, tcont, is_shutting_down,
                   c_continue, joined, nconn, ndata, observers, nidx, ncall,
                   lastExit, lastReg>>
    /\ UNCHANGED svars

\* sleep(5) returns and the while True loop of connect() tries again
Sleep(a) ==
    /\ cpc[a] = "sleep"
    /\ cpc' = [cpc EXCEPT ![a] = "conn"]
    /\ UNCHANGED <<sock, sockState, thread, tcont, is_shutting_down,
                   c_continue, joined, nconn, ndata, observers, nidx, ncall,
                   lastExit, lastReg>>
    /\ UNCHANGED svars

\* start_thread(): self._thread = ClientThread(self, daemon=True)
MakeThread(a) ==
    /\ cpc[a] = "mkthread"
    /\ thread' = sock
    /\ tcont' = [tcont EXCEPT ![sock] = TRUE]
    /\ cpc' = [cpc EXCEPT ![a] = "start", ![sock] = "created"]
    /\ UNCHANGED <<sock, sockState, is_shutting_down, c_continue, joined,
                   nconn, ndata, observers, nidx, ncall, lastExit, lastReg>>
    /\ UNCHANGED svars

\* start_thread(): self.thread.start() launches the new thread, which runs
\* from here on; the starter is still inside start()
StartOK(a) ==
    /\ cpc[a] = "start"
    /\ cpc' = [cpc EXCEPT ![a] = "started", ![thread] = "check"]
    /\ UNCHANGED <<sock, sockState, thread, tcont, is_shutting_down,
                   c_continue, joined, nconn, ndata, observers, nidx, ncall,
                   lastExit, lastReg>>
    /\ UNCHANGED svars

\* start() and start_thread() return; connect() breaks and returns
ConnectReturn(a) ==
    /\ cpc[a] = "started"
    /\ cpc' = [cpc EXCEPT ![a] = AfterConnect(a)]
    /\ UNCHANGED <<sock, sockState, thread, tcont, is_shutting_down,
                   c_continue, joined, nconn, ndata, observers, nidx, ncall,
                   lastExit, lastReg>>
    /\ UNCHANGED svars

\* start_thread(): self.thread.start() raises; connect() logs and sleeps
StartFail(a) ==
    /\ cpc[a] = "start" /\ nconn < MaxConn
    /\ cpc' = [cpc EXCEPT ![a] = ExceptRetry]
    /\ UNCHANGED <<sock, sockState, thread, tcont, is_shutting_down,
                   c_continue, joined, nconn, ndata, observers, nidx, ncall,
                   lastExit, lastReg>>
    /\ UNCHANGED svars

\* while self._continue:
ThreadCheck(k) ==
    /\ cpc[k] = "check"
    /\ cpc' = [cpc EXCEPT ![k] = ClientLoopTest(k)]
    /\ lastExit' = IF ClientLoopTest(k) = "fin" THEN "interrupted" ELSE lastExit
    /\ UNCHANGED <<sock, sockState, thread, tcont, is_shutting_down,
                   c_continue, joined, nconn, ndata, observers, nidx, ncall,
                   lastReg>>
    /\ UNCHANGED svars

SockOpen == sock >= 1 /\ sockState[sock] = "open"

\* self.client.socket.recv(...) returned a message: it is decoded and
\* notify_observers(self, msg) starts its for loop
ThreadRecvData(k) ==
    /\ cpc[k] = "recv" /\ SockOpen /\ ndata < MaxData
    /\ ndata' = ndata + 1
    /\ cpc' = [cpc EXCEPT ![k] = "notify"]
    /\ nidx' = 1
    /\ ncall' = [by |-> k, start |-> observers, invoked |-> <<>>,
                 stayed |-> observers, status |-> "running"]
    /\ UNCHANGED <<sock, sockState, thread, tcont, is_shutting_down,
                   c_continue, joined, nconn, observers, lastExit, lastReg>>
    /\ UNCHANGED svars

\* recv raised socket.timeout: pass
ThreadRecvTimeout(k) ==
    /\ cpc[k] = "recv" /\ SockOpen
    /\ cpc' = [cpc EXCEPT ![k] = "check"]
    /\ UNCHANGED <<sock, sockState, thread, tcont, is_shutting_down,
                   c_continue, joined, nconn, ndata, observers, nidx, ncall,
                   lastExit, lastReg>>
    /\ UNCHANGED svars

\* recv returned b"" (the peer closed the connection): break
ThreadRecvEmpty(k) ==
    /\ cpc[k] = "recv" /\ SockOpen
    /\ nconn < MaxConn \/ is_shutting_down
    /\ cpc' = [cpc EXCEPT ![k] = "fin"]
    /\ lastExit' = "empty"
    /\ UNCHANGED <<sock, sockState, thread, tcont, is_shutting_down,
                   c_continue, joined, nconn, ndata, observers, nidx, ncall,
                   lastReg>>
    /\ UNCHANGED svars

\* recv raised an OSError (connection reset, or the socket is closed or was
\* never connected), or data.decode() raised: the exception leaves the loop
ThreadRecvError(k) ==
    /\ cpc[k] = "recv"
    /\ SockOpen => (nconn < MaxConn \/ is_shutting_down)
    /\ cpc' = [cpc EXCEPT ![k] = "fin"]
    /\ lastExit' = "error"
    /\ UNCHANGED <<sock, sockState, thread, tcont, is_shutting_down,
                   c_continue, joined, nconn, ndata, observers, nidx, ncall,
                   lastReg>>
    /\ UNCHANGED svars

\* notify_observers: one iteration of  for observer in self._observers
NotifyOne(k) ==
    /\ cpc[k] = "notify" /\ nidx <= Len(observers)
    /\ ncall' = [ncall EXCEPT !.invoked = Append(@, <<observers[nidx], k>>)]
    /\ nidx' = NotifyNext(nidx)
    /\ UNCHANGED <<cpc, sock, sockState, thread, tcont, is_shutting_down,
                   c_continue, joined, nconn, ndata, observers, lastExit,
                   lastReg>>
    /\ UNCHANGED svars

\* notify_observers: the for loop is exhausted
NotifyEnd(k) ==
    /\ cpc[k] = "notify" /\ nidx > Len(observers)
    /\ ncall' = [ncall EXCEPT !.status = "done"]
    /\ nidx' = 0
    /\ cpc' = [cpc EXCEPT ![k] = "check"]
    /\ UNCHANGED <<sock, sockState, thread, tcont, is_shutting_down,
                   c_continue, joined, nconn, ndata, observers, lastExit,
                   lastReg>>
    /\ UNCHANGED svars

\* the finally block of run(): reconnect unless the client is shutting down
ThreadFinally(k) ==
    /\ cpc[k] = "fin"
    /\ cpc' = [cpc EXCEPT ![k] = Finally]
    /\ UNCHANGED <<sock, sockState, thread, tcont, is_shutting_down,
                   c_continue, joined, nconn, ndata, observers, nidx, ncall,
                   lastExit, lastReg>>
    /\ UNCHANGED svars

\* a KeyboardInterrupt reaches the caller inside connect(); except Exception
\* does not catch it, so it leaves connect() for the finally block of
\* start() / start_forever()
KeyboardInterrupt ==
    /\ InConnect(0)
    /\ cpc' = [cpc EXCEPT ![0] = "finally"]
    /\ UNCHANGED <<sock, sockState, thread, tcont, is_shutting_down,
                   c_continue, joined, nconn, ndata, observers, nidx, ncall,
                   lastExit, lastReg>>
    /\ UNCHANGED svars

\* Client.interrupt(), called by the caller's code or by start_forever when
\* execute returns a false value: self._continue = False
Interrupt ==
    /\ cpc[0] = "run" /\ c_continue
    /\ c_continue' = FALSE
    /\ UNCHANGED <<cpc, sock, sockState, thread, tcont, is_shutting_down,
                   joined, nconn, ndata, observers, nidx, ncall, lastExit,
                   lastReg>>
    /\ UNCHANGED svars

\* shutdown(): self._is_shutting_down = True; self.interrupt()
ShutdownBegin ==
    /\ cpc[0] \in {"run", "finally"}
    /\ is_shutting_down' = TRUE
    /\ c_continue' = FALSE
    /\ cpc' = [cpc EXCEPT ![0] = "sd_if"]
    /\ UNCHANGED <<sock, sockState, thread, tcont, joined, nconn, ndata,
                   observers, nidx, ncall, lastExit, lastReg>>
    /\ UNCHANGED svars

\* shutdown(): if self.thread:
ShutdownIf ==
    /\ cpc[0] = "sd_if"
    /\ cpc' = [cpc EXCEPT ![0] = IF thread # 0 THEN "sd_int" ELSE "sd_close"]
    /\ UNCHANGED <<sock, sockState, thread, tcont, is_shutting_down,
                   c_continue, joined, nconn, ndata, observers, nidx, ncall,
                   lastExit, lastReg>>
    /\ UNCHANGED svars

\* shutdown(): self.thread.interrupt()
ShutdownInterrupt ==
    /\ cpc[0] = "sd_int"
    /\ tcont' = [tcont EXCEPT ![thread] = FALSE]
    /\ cpc' = [cpc EXCEPT ![0] = "sd_join"]
    /\ UNCHANGED <<sock, sockState, thread, is_shutting_down, c_continue,
                   joined, nconn, ndata, observers, nidx, ncall, lastExit,
                   lastReg>>
    /\ UNCHANGED svars

\* shutdown(): self.thread.join() is called; joining a thread that was never
\* started raises RuntimeError, which leaves shutdown()
ShutdownJoin ==
    /\ cpc[0] = "sd_join"
    /\ IF cpc[thread] = "created"
       THEN cpc' = [cpc EXCEPT ![0] = "sd_raised"] /\ UNCHANGED joined
       ELSE cpc' = [cpc EXCEPT ![0] = "sd_wait"] /\ joined' = thread
    /\ UNCHANGED <<sock, sockState, thread, tcont, is_shutting_down,
                   c_continue, nconn, ndata, observers, nidx, ncall, lastExit,
                   lastReg>>
    /\ UNCHANGED svars

\* shutdown(): join() returns once the joined thread has ended
ShutdownJoined ==
    /\ cpc[0] = "sd_wait" /\ cpc[joined] = "done"
    /\ cpc' = [cpc EXCEPT ![0] = "sd_close"]
    /\ UNCHANGED <<sock, sockState, thread, tcont, is_shutting_down,
                   c_continue, joined, nconn, ndata, observers, nidx, ncall,
                   lastExit, lastReg>>
    /\ UNCHANGED svars

\* shutdown(): self.socket.close(), and shutdown() returns; when _socket is
\* still None the call raises AttributeError, which leaves shutdown()
ShutdownClose ==
    /\ cpc[0] = "sd_close"
    /\ sockState' = IF sock >= 1 THEN [sockState EXCEPT ![sock] = "closed"]
                    ELSE sockState
    /\ sock' = IF sock = -1 THEN -2 ELSE sock
    /\ cpc' = [cpc EXCEPT ![0] = IF sock = 0 THEN "sd_raised" ELSE "closed"]
    /\ UNCHANGED <<thread, tcont, is_shutting_down, c_continue, joined,
                   nconn, ndata, observers, nidx, ncall, lastExit, lastReg>>
    /\ UNCHANGED svars

\* the caller registers an observer
RegisterObserver(o) ==
    /\ cpc[0] \in {"idle", "run"}
    /\ observers' = Register(observers, o)
    /\ ncall' = Touch(Register(observers, o))
    /\ lastReg' = IF InList(o, observers) THEN "register_present"
                  ELSE "register_absent"
    /\ UNCHANGED <<cpc, sock, sockState, thread, tcont, is_shutting_down,
                   c_continue, joined, nconn, ndata, nidx, lastExit>>
    /\ UNCHANGED svars

\* the caller unregisters an observer
UnregisterObserver(o) ==
    /\ cpc[0] \in {"idle", "run"}
    /\ observers' = Unregister(observers, o)
    /\ ncall' = Touch(Unregister(observers, o))
    /\ lastReg' = IF InList(o, observers) THEN "unregister_present"
                  ELSE "unregister_absent"
    /\ UNCHANGED <<cpc, sock, sockState, thread, tcont, is_shutting_down,
                   c_continue, joined, nconn, ndata, nidx, lastExit>>
    /\ UNCHANGED svars

\* the steps of connect(), on whichever thread runs it
ConnectStep(a) ==
    \/ SocketCreate(a)
    \/ SocketFail(a)
    \/ ConnectOK(a)
    \/ ConnectFail(a)
    \/ Sleep(a)
    \/ MakeThread(a)
    \/ StartOK(a)
    \/ StartFail(a)
    \/ ConnectReturn(a)

\* the steps of ClientThread.run
ThreadStep(k) ==
    \/ ThreadCheck(k)
    \/ ThreadRecvData(k)
    \/ ThreadRecvTimeout(k)
    \/ ThreadRecvEmpty(k)
    \/ ThreadRecvError(k)
    \/ NotifyOne(k)
    \/ NotifyEnd(k)
    \/ ThreadFinally(k)

\* the steps of shutdown() after its first statement
ShutdownStep ==
    \/ ShutdownIf
    \/ ShutdownInterrupt
    \/ ShutdownJoin
    \/ ShutdownJoined
    \/ ShutdownClose

ObserverStep ==
    \/ \E o \in Observers : RegisterObserver(o)
    \/ \E o \in Observers : UnregisterObserver(o)

\* client_main: the client is constructed and the default observers
\* (EchoObserver, LogDebugObserver) are registered before start_forever
DefaultObservers == [i \in 1..NObs |-> i]

InitMain ==
    /\ InitServer /\ direct
    /\ cpc = [a \in Agents |-> IF a = 0 THEN "idle" ELSE "none"]
    /\ sock = 0
    /\ sockState = [k \in Conns |-> "none"]
    /\ thread = 0
    /\ tcont = [k \in Conns |-> TRUE]
    /\ is_shutting_down = FALSE
    /\ c_continue = TRUE
    /\ joined = 0
    /\ nconn = 0
    /\ ndata = 0
    /\ observers = DefaultObservers
    /\ nidx = 0
    /\ ncall = NoCall
    /\ lastExit = "none"
    /\ lastReg = "register_absent"

NextReconnect ==
    \/ StartClient
    \/ \E a \in Agents : ConnectStep(a)
    \/ \E k \in Conns : ThreadStep(k)

NextClient ==
    \/ StartClient
    \/ \E a \in Agents : ConnectStep(a)
    \/ \E k \in Conns : ThreadStep(k)
    \/ KeyboardInterrupt
    \/ Interrupt
    \/ ShutdownBegin
    \/ ShutdownStep

\* The client as client_main runs it; the server stays as constructed.
SpecClient == InitMain /\ [][NextClient]_vars

\* Threads that can run do run; a connection attempt may fail every time.
FairClient == /\ SpecClient
              /\ (\A a \in Agents : WF_vars(ConnectStep(a)))
              /\ (\A k \in Conns : WF_vars(ThreadStep(k)))
              /\ WF_vars(ShutdownStep)

\* The client whose caller never calls shutdown(), with a server that accepts
\* a connection attempt sooner or later.
SpecReconnect == InitMain /\ [][NextReconnect]_vars

FairReconnect == /\ SpecReconnect
                 /\ (\A a \in Agents : WF_vars(ConnectStep(a)))
                 /\ SF_vars(\E a \in Agents : SocketCreate(a))
                 /\ SF_vars(\E a \in Agents : ConnectOK(a))
                 /\ (\A k \in Conns : WF_vars(ThreadStep(k)))

\* A connected client whose caller registers and unregisters observers while
\* the receive loop delivers messages.
InitC == InitServer /\ direct /\ InitClient

NextObservers ==
    \/ StartClient
    \/ SocketCreate(0) \/ ConnectOK(0) \/ MakeThread(0) \/ StartOK(0)
    \/ ConnectReturn(0)
    \/ \E k \in Conns : ThreadCheck(k)
    \/ \E k \in Conns : ThreadRecvData(k)
    \/ \E k \in Conns : ThreadRecvTimeout(k)
    \/ \E k \in Conns : NotifyOne(k)
    \/ \E k \in Conns : NotifyEnd(k)
    \/ ObserverStep

SpecObservers == InitC /\ [][NextObservers]_vars

\* --------------------------------------------------------- client properties
\* C4: when the peer closes the socket (recv returns b"") and the client is
\* not shutting down, the client ends up with a new connected socket and a
\* new ClientThread in its receive loop, with no action of the caller.
C4_ReconnectLiveness ==
    \A k \in Conns :
        (cpc[k] = "fin" /\ lastExit = "empty" /\ ~is_shutting_down)
            ~> (sock > k /\ SockOpen /\ thread = sock /\ InLoop(thread))

C4_Witness ==
    /\ lastExit = "empty" /\ cpc[1] = "done"
    /\ sock = 2 /\ SockOpen /\ thread = 2 /\ InLoop(2)

\* C5: once shutdown() has set the shutdown flag, no new socket is opened and
\* no new ClientThread is created.
C5_NoConnectAfterShutdown ==
    [][is_shutting_down => (sock' \in {sock, -2} /\ thread' = thread)]_vars

\* C6: when shutdown() has returned, no ClientThread of the client is running
\* and the client's current socket is closed.
C6_ShutdownTerminal ==
    cpc[0] = "closed" =>
        /\ \A k \in Conns : ~Running(k)
        /\ sock >= 1 => sockState[sock] = "closed"

\* C7: shutdown(), once called, eventually ends, whatever the receive loop is
\* doing.
C7_ShutdownReturns ==
    (cpc[0] = "sd_if") ~> (cpc[0] \in {"closed", "sd_raised"})

\* C10: the observer list never holds an observer twice; registering a
\* registered observer and unregistering an absent one leave the list, content
\* and order, unchanged.
C10_ObserverUniqueness ==
    /\ []Unique(observers)
    /\ [][\A o \in Observers :
            /\ (RegisterObserver(o) /\ InList(o, observers))
               => observers' = observers
            /\ (UnregisterObserver(o) /\ ~InList(o, observers))
               => observers' = observers]_vars

C10_Witness ==
    /\ lastReg = "register_present"
    /\ observers = <<2, 1>>

Notified(invoked) == [i \in 1..Len(invoked) |-> invoked[i][1]]

\* C11: a notify_observers call invokes notify exactly once, in registration
\* order and on the thread that made the call, on every observer that is
\* registered from the start of the call to its end.
C11_ObserverNotification ==
    ncall.status = "done" =>
        /\ SelectSeq(Notified(ncall.invoked),
                     LAMBDA o : InList(o, ncall.stayed)) = ncall.stayed
        /\ \A i \in 1..Len(ncall.invoked) : ncall.invoked[i][2] = ncall.by

\* C12: the observers invoked by one notify_observers call are the list as
\* it was when the call started, whatever is registered or unregistered
\* during the call.
C12_NotifySnapshot ==
    ncall.status = "done" => Notified(ncall.invoked) = ncall.start

\* C15: connect() returns only after the attempt's socket was connected and
\* its ClientThread started; each failed attempt (socket creation, connect,
\* thread start) leads to the sleep and the sleep to a new attempt, so no
\* failure reaches the caller: besides the return, only a KeyboardInterrupt
\* of the caller leaves connect().
C15_ConnectRetry ==
    [][\A a \in Agents :
         /\ (InConnect(a) /\ ~InConnect(a)')
            => \/ cpc[a] = "started" /\ cpc'[a] = AfterConnect(a)
               \/ a = 0 /\ KeyboardInterrupt
         /\ (cpc[a] # "started" /\ cpc'[a] = "started")
            => /\ cpc[a] = "start"
               /\ sock >= 1 /\ sockState[sock] = "open"
               /\ thread = sock /\ cpc[thread] = "created"
               /\ cpc'[thread] = "check"
         /\ (SocketFail(a) \/ ConnectFail(a) \/ StartFail(a))
            => cpc'[a] = "sleep"
         /\ (cpc[a] = "sleep" /\ cpc'[a] # "sleep")
            => (cpc'[a] = "conn" \/ (a = 0 /\ KeyboardInterrupt))]_vars

C15_Witness ==
    /\ cpc[0] = "run" /\ cpc[1] = "created"
    /\ sock = 2 /\ SockOpen /\ thread = 2 /\ InLoop(2)

OnExitPath(k) == cpc[k] \in {"fin", "conn", "connecting", "mkthread", "start",
                            "started", "sleep", "done"}

\* C20: at most one ClientThread is inside its read loop; a thread that has
\* left the loop, to reconnect or to end, never reads again; and a thread that
\* reads is the client's current thread reading the client's current socket.
C20_SingleReceiver ==
    /\ [](\A j, k \in Conns : (InLoop(j) /\ InLoop(k)) => j = k)
    /\ [][\A k \in Conns : OnExitPath(k) => OnExitPath(k)']_vars
    /\ [][\A k \in Conns :
            (cpc[k] = "recv" /\ cpc'[k] # "recv") => (thread = k /\ sock = k)]_vars

C20_Witness ==
    /\ cpc[1] = "done" /\ cpc[2] = "created"
    /\ sock = 3 /\ thread = 3 /\ cpc[3] = "notify"

====
